---- MODULE Spec2Model ----
(***************************************************************************)
(* Double-elimination bracket engine of the cornhole tournament manager    *)
(* (src/src/lib/bracketLogic.ts): generateInitialBracket builds the match  *)
(* rows, updateBracketAfterMatch computes the mutations for a recorded     *)
(* result, and the persistence layer applies them to the match collection. *)
(* The loss-tracking variant follows: the module state and functions of    *)
(* src/src/lib/tournamentLogic.ts, and the result log with the suggested   *)
(* matchups of src/src/pages/BracketPage.tsx.                              *)
(***************************************************************************)
EXTENDS Integers, Sequences, FiniteSets, TLC

(* ---------------- bounds ---------------- *)
MaxTeams == 6
\* re-submissions of already decided matches per tournament
MaxResubmits == 1
\* team count of the wide bracket (three Round-2 matches, a champion bye)
WideTeams == 11
\* results recorded in the wide bracket
MaxWideResults == 3
\* results with a winner from outside the match that one tournament takes
MaxForeign == 1
\* players enrolled in a loss-tracking tournament
MaxPlayers == 4
\* results recorded by a caller that names any two teams
MaxAnyResults == 3
\* teams of an event shown on the loss-tracking page
MaxPageTeams == 3
\* result rows inserted for one event
MaxRows == 4
\* teams of an event in a tournament played from the suggested matchups
MaxSuggestedTeams == 4
\* result rows inserted for an event whose results are also corrected by hand
MaxEditRows == 2

(* ---------------- values ---------------- *)
\* null team reference (team1_id / team2_id / winner_id / loser_id = null)
NoTeam == 0
\* champion?.id when no team is flagged is_reigning_champion (undefined)
Undefined == -1

VARIABLES
  totalTeams,        \* teams.length; the teams are 1..totalTeams in seed order
  championGetsBye,   \* the event's champion_gets_bye option
  reigning,          \* id of the team flagged is_reigning_champion, or Undefined
  matches,           \* the persisted match rows, in id order (id = position)
  completed,         \* the last call: [op, id, winner_id, signal]
  updates,           \* the mutations returned by the last call
  resubmits,         \* number of re-submitted results so far
  teams,             \* tournamentLogic.ts: the module-level teams array
  matchCounter,      \* tournamentLogic.ts: the module-level matchCounter
  call,              \* the last call made to tournamentLogic.ts
  cornhole_event_matches,  \* the stored result rows of the event, oldest first
  matchResults,      \* BracketPage: each open page's loaded matchResults
  lastId,            \* the last id the store gave to an inserted row
  lastChange         \* the last change of the stored rows: [op, id, before]

bracketVars == <<matches, completed, updates, resubmits>>
facadeVars == <<teams, matchCounter, call>>
pageVars == <<cornhole_event_matches, matchResults, lastId, lastChange>>

vars == <<totalTeams, championGetsBye, reigning, bracketVars, facadeVars, pageVars>>

(* ---------------- arithmetic helpers ---------------- *)
Floor2(x) == x \div 2
Ceil2(x) == (x + 1) \div 2

RECURSIVE nextPow2From(_, _)
nextPow2From(p, k) == IF p >= k THEN p ELSE nextPow2From(2 * p, k)
nextPow2(k) == nextPow2From(1, k)

Idx(s) == 1..Len(s)

(* ---------------- match rows ---------------- *)
Row(r, k, t1, t2, w, bye) ==
  [round |-> r, match_number |-> k, team1_id |-> t1, team2_id |-> t2,
   winner_id |-> w, loser_id |-> NoTeam, is_bye |-> bye]

EmptyRow(r, k) == Row(r, k, NoTeam, NoTeam, NoTeam, FALSE)

\* matches.find((m) => m.round === r && m.match_number === k): first index or 0
FindMatch(ms, r, k) ==
  LET hit == {i \in Idx(ms) : ms[i].round = r /\ ms[i].match_number = k}
  IN IF hit = {} THEN 0 ELSE CHOOSE i \in hit : \A j \in hit : i <= j

\* matches.find((m) => m.round === r): first index or 0
FindRound(ms, r) ==
  LET hit == {i \in Idx(ms) : ms[i].round = r}
  IN IF hit = {} THEN 0 ELSE CHOOSE i \in hit : \A j \in hit : i <= j

CountRound(ms, r) == Cardinality({i \in Idx(ms) : ms[i].round = r})

(* ---------------- generateInitialBracket ---------------- *)
\* teams.find((t) => t.is_reigning_champion) under championGetsBye && isOdd
championTeam(nTeams, getsBye, champ) ==
  IF getsBye /\ nTeams % 2 = 1 THEN champ ELSE Undefined

\* teams.filter((t) => t.id !== championTeam.id), as a sequence of team ids
nonChampTeams(nTeams, getsBye, champ) ==
  LET ct == championTeam(nTeams, getsBye, champ)
  IN SelectSeq([i \in 1..nTeams |-> i], LAMBDA t : t # ct)

actualMatchCount(nTeams, getsBye, champ) ==
  Ceil2(Len(nonChampTeams(nTeams, getsBye, champ)))

\* winners round 1: pairs in seed order, the odd team out gets a bye row
RoundOne(nc) ==
  [i \in 1..Ceil2(Len(nc)) |->
     IF 2 * i <= Len(nc)
       THEN Row(1, i - 1, nc[2 * i - 1], nc[2 * i], NoTeam, FALSE)
       ELSE Row(1, i - 1, nc[2 * i - 1], NoTeam, nc[2 * i - 1], TRUE)]

\* LaterRounds rounding the halved count down instead of up
RECURSIVE LaterRounds_floor(_, _)
LaterRounds_floor(round, remaining) ==
  IF remaining > 1
    THEN [i \in 1..Floor2(remaining) |-> EmptyRow(round, i - 1)]
           \o LaterRounds_floor(round + 1, Floor2(remaining))
    ELSE << >>

\* winners rounds 2.. : ceil(remaining / 2) empty rows while remaining > 1
RECURSIVE LaterRounds(_, _)
LaterRounds(round, remaining) ==
  IF remaining > 1
    THEN [i \in 1..Ceil2(remaining) |-> EmptyRow(round, i - 1)]
           \o LaterRounds(round + 1, Ceil2(remaining))
    ELSE << >>

\* processByeMatches: each round-1 bye feeds round 2, slot floor(k/2)
RECURSIVE processByeMatches(_, _)
processByeMatches(ms, i) ==
  IF i > Len(ms) THEN ms
  ELSE LET bye == ms[i]
           nx == FindMatch(ms, 2, Floor2(bye.match_number))
       IN IF bye.round = 1 /\ bye.is_bye /\ bye.winner_id # NoTeam /\ nx # 0
            THEN processByeMatches(
                   IF bye.match_number % 2 = 0
                     THEN [ms EXCEPT ![nx].team1_id = bye.winner_id]
                     ELSE [ms EXCEPT ![nx].team2_id = bye.winner_id], i + 1)
            ELSE processByeMatches(ms, i + 1)

\* champion inserted into round 2 at the last round-1 match's feed target
insertChampion(ms, ct, amc) ==
  LET r2 == FindMatch(ms, 2, Floor2(amc - 1))
  IN IF ct # Undefined /\ r2 # 0 THEN [ms EXCEPT ![r2].team2_id = ct] ELSE ms

generateInitialBracket(nTeams, getsBye, champ) ==
  LET ct == championTeam(nTeams, getsBye, champ)
      nc == nonChampTeams(nTeams, getsBye, champ)
      amc == actualMatchCount(nTeams, getsBye, champ)
      winners == RoundOne(nc)
                   \o LaterRounds(2, amc + (IF ct # Undefined THEN 1 ELSE 0))
      fed == insertChampion(processByeMatches(winners, 1), ct, amc)
      lb1 == [i \in 1..Floor2(amc) |-> EmptyRow(-1, i - 1)]
  IN fed \o lb1 \o << EmptyRow(0, 0) >>

(* ---------------- mutations (Partial<EventMatchRow>) ---------------- *)
\* A mutation names the row it updates (id = 0: an insert without id), the
\* fields it carries, and their values.  src records which part of
\* updateBracketAfterMatch pushed it ("advance" or "sweep").
Mutation(id, set, row, src) == [id |-> id, set |-> set, row |-> row, src |-> src]

SetTeam1(id, t, src) ==
  Mutation(id, {"team1_id"}, Row(0, 0, t, NoTeam, NoTeam, FALSE), src)
SetTeam2(id, t, src) ==
  Mutation(id, {"team2_id"}, Row(0, 0, NoTeam, t, NoTeam, FALSE), src)
SetLoser(id, t) ==
  Mutation(id, {"loser_id"},
           [Row(0, 0, NoTeam, NoTeam, NoTeam, FALSE) EXCEPT !.loser_id = t],
           "advance")
SetBye(id, w) ==
  Mutation(id, {"is_bye", "winner_id"}, Row(0, 0, NoTeam, NoTeam, w, TRUE), "sweep")
\* buildInsertMatch: a full row without id
buildInsertMatch(row) ==
  Mutation(0, {"round", "match_number", "team1_id", "team2_id", "winner_id",
               "loser_id", "is_bye"}, row, "advance")

(* ---------------- autoAdvanceWinnersByes ---------------- *)
\* the filter of pending rows: winners bracket, undecided, exactly one slot
isPending(m) ==
  /\ m.round > 0
  /\ m.winner_id = NoTeam
  /\ ~m.is_bye
  /\ \/ (m.team1_id # NoTeam /\ m.team2_id = NoTeam)
     \/ (m.team1_id = NoTeam /\ m.team2_id # NoTeam)

\* skipsChampion without the guard: the sweep treats the champion like any team
skipsChampion_never(m, championId) == FALSE

\* the "DO NOT auto-advance champion" guard of the loop
skipsChampion(m, championId) ==
  m.team1_id = championId \/ m.team2_id = championId

\* the body of the loop for one pending row
sweepOne(ms, i, championId) ==
  LET m == ms[i]
      winner_id == IF m.team1_id # NoTeam THEN m.team1_id ELSE m.team2_id
      next == FindMatch(ms, m.round + 1, Floor2(m.match_number))
      grandFinal == FindRound(ms, 0)
  IN IF skipsChampion(m, championId) THEN << >>
     ELSE << SetBye(i, winner_id) >> \o
          (IF next # 0
             THEN IF ms[next].team1_id = NoTeam
                    THEN << SetTeam1(next, winner_id, "sweep") >>
                  ELSE IF ms[next].team2_id = NoTeam
                    THEN << SetTeam2(next, winner_id, "sweep") >>
                  ELSE << >>
             ELSE IF grandFinal # 0
                    THEN << SetTeam1(grandFinal, winner_id, "sweep") >>
                    ELSE << >>)

RECURSIVE sweepFrom(_, _, _)
sweepFrom(ms, i, championId) ==
  IF i > Len(ms) THEN << >>
  ELSE (IF isPending(ms[i]) THEN sweepOne(ms, i, championId) ELSE << >>)
         \o sweepFrom(ms, i + 1, championId)

autoAdvanceWinnersByes(ms, championId) == sweepFrom(ms, 1, championId)

(* ---------------- updateBracketAfterMatch ---------------- *)
\* deriveLoser with the branches of the ternary swapped
deriveLoser_swapped(c) == IF c.winner_id = c.team1_id THEN c.team1_id ELSE c.team2_id

\* loser_id = winner_id === team1_id ? team2_id : team1_id
deriveLoser(c) == IF c.winner_id = c.team1_id THEN c.team2_id ELSE c.team1_id

\* "Bye behavior": forward the bye's winner by the halving rule, then return
byeBranch(ms, c) ==
  IF c.round > 0
    THEN LET nextMatch == FindMatch(ms, c.round + 1, Floor2(c.match_number))
             gf == FindRound(ms, 0)
         IN IF nextMatch # 0
              THEN IF c.match_number % 2 = 0
                     THEN << SetTeam1(nextMatch, c.winner_id, "advance") >>
                     ELSE << SetTeam2(nextMatch, c.winner_id, "advance") >>
              ELSE IF gf # 0 THEN << SetTeam1(gf, c.winner_id, "advance") >>
                   ELSE << >>
    ELSE << >>

\* nextMatchNumber without the round-1 distribution: plain halving everywhere
nextMatchNumber_halving(ms, c) == Floor2(c.match_number)

\* "R1 -> R2 correct distribution"
nextMatchNumber(ms, c) ==
  LET currCount == CountRound(ms, c.round)
      nextCount == CountRound(ms, c.round + 1)
  IN IF c.round = 1 /\ currCount > 0 /\ nextCount > 0
       THEN (c.match_number * nextCount) \div currCount
       ELSE Floor2(c.match_number)

\* forwardWinner placing by the parity of the originating slot (the rule of
\* processByeMatches) instead of the first empty slot
forwardWinner_byParity(ms, c) ==
  LET nextMatch == FindMatch(ms, c.round + 1, nextMatchNumber(ms, c))
      gf == FindRound(ms, 0)
  IN IF nextMatch # 0
       THEN IF c.match_number % 2 = 0
              THEN << SetTeam1(nextMatch, c.winner_id, "advance") >>
              ELSE << SetTeam2(nextMatch, c.winner_id, "advance") >>
       ELSE IF gf # 0 THEN << SetTeam1(gf, c.winner_id, "advance") >> ELSE << >>

\* winner of a winners-bracket match: next round, first empty slot, else final
forwardWinner(ms, c) ==
  LET nextMatch == FindMatch(ms, c.round + 1, nextMatchNumber(ms, c))
      gf == FindRound(ms, 0)
  IN IF nextMatch # 0
       THEN IF ms[nextMatch].team1_id = NoTeam
              THEN << SetTeam1(nextMatch, c.winner_id, "advance") >>
            ELSE IF ms[nextMatch].team2_id = NoTeam
              THEN << SetTeam2(nextMatch, c.winner_id, "advance") >>
            ELSE << >>
       ELSE IF gf # 0 THEN << SetTeam1(gf, c.winner_id, "advance") >> ELSE << >>

lbRound(round) ==
  IF round = 1 THEN -1 ELSE IF round = 2 THEN -4 ELSE -(2 * round - 2)

lbMatchNumber(c) == IF c.round = 2 THEN 0 ELSE Floor2(c.match_number)

\* dropLoser without the lookup of an existing losers match: always inserts
dropLoser_alwaysInsert(ms, c, loser_id) ==
  LET placeTop == c.match_number % 2 = 0
  IN << buildInsertMatch(
          Row(lbRound(c.round), lbMatchNumber(c),
              IF placeTop THEN loser_id ELSE NoTeam,
              IF placeTop THEN NoTeam ELSE loser_id, NoTeam, FALSE)) >>

\* "Send loser to losers bracket"
dropLoser(ms, c, loser_id) ==
  LET existingLB == FindMatch(ms, lbRound(c.round), lbMatchNumber(c))
      placeTop == c.match_number % 2 = 0
  IN IF existingLB = 0
       THEN << buildInsertMatch(
                 Row(lbRound(c.round), lbMatchNumber(c),
                     IF placeTop THEN loser_id ELSE NoTeam,
                     IF placeTop THEN NoTeam ELSE loser_id, NoTeam, FALSE)) >>
       ELSE IF placeTop /\ ms[existingLB].team1_id = NoTeam
              THEN << SetTeam1(existingLB, loser_id, "advance") >>
            ELSE IF ~placeTop /\ ms[existingLB].team2_id = NoTeam
              THEN << SetTeam2(existingLB, loser_id, "advance") >>
            ELSE << >>

\* "LOSERS BRACKET": winner to round - 1, slot floor(k/2), or the final
losersBranch(ms, c) ==
  LET nextLBRound == c.round - 1
      nextLBMatchNo == Floor2(c.match_number)
      abs == -c.round
      isOddLB == abs % 2 = 1
      placeTop == c.match_number % 2 = 0
      nextLB == FindMatch(ms, nextLBRound, nextLBMatchNo)
      gf == FindRound(ms, 0)
  IN IF nextLB = 0
       THEN IF gf # 0 /\ CountRound(ms, nextLBRound) = 0
              THEN << SetTeam2(gf, c.winner_id, "advance") >>
              ELSE << buildInsertMatch(
                        Row(nextLBRound, nextLBMatchNo,
                            IF isOddLB \/ placeTop THEN c.winner_id ELSE NoTeam,
                            IF isOddLB \/ placeTop THEN NoTeam ELSE c.winner_id,
                            NoTeam, FALSE)) >>
       ELSE IF isOddLB \/ placeTop
              THEN << SetTeam1(nextLB, c.winner_id, "advance") >>
              ELSE << SetTeam2(nextLB, c.winner_id, "advance") >>

\* rejects without the test of winner_id: only an unknown id returns early
rejects_onlyMissing(ms, completedMatchId) == completedMatchId \notin Idx(ms)

\* if (!completed || !completed.winner_id) return updates
rejects(ms, completedMatchId) ==
  \/ completedMatchId \notin Idx(ms)
  \/ ms[completedMatchId].winner_id = NoTeam

\* how a call ends: the function has no throw, every path returns the array
signalOf(ms, completedMatchId) == "returned"

updateBracketAfterMatch(ms, completedMatchId, championId) ==
  IF rejects(ms, completedMatchId) THEN << >>
  ELSE LET c == ms[completedMatchId]
           loser_id == deriveLoser(c)
           first == << SetLoser(completedMatchId, loser_id) >>
       IN IF loser_id = NoTeam /\ c.is_bye
            THEN first \o byeBranch(ms, c)
            ELSE first
                   \o (IF c.round > 0
                         THEN forwardWinner(ms, c) \o dropLoser(ms, c, loser_id)
                         ELSE << >>)
                   \o (IF c.round < 0 THEN losersBranch(ms, c) ELSE << >>)
                   \o autoAdvanceWinnersByes(ms, championId)

(* ---------------- the caller: persist the mutations ---------------- *)
\* one mutation applied to the stored rows; an insert gets the next id
applyOne(ms, u) ==
  IF u.id = 0 THEN Append(ms, u.row)
  ELSE [ms EXCEPT ![u.id] =
          [round |-> @.round,
           match_number |-> @.match_number,
           team1_id |-> IF "team1_id" \in u.set THEN u.row.team1_id ELSE @.team1_id,
           team2_id |-> IF "team2_id" \in u.set THEN u.row.team2_id ELSE @.team2_id,
           winner_id |-> IF "winner_id" \in u.set THEN u.row.winner_id ELSE @.winner_id,
           loser_id |-> IF "loser_id" \in u.set THEN u.row.loser_id ELSE @.loser_id,
           is_bye |-> IF "is_bye" \in u.set THEN u.row.is_bye ELSE @.is_bye]]

RECURSIVE applyAll(_, _)
applyAll(ms, us) ==
  IF us = << >> THEN ms ELSE applyAll(applyOne(ms, Head(us)), Tail(us))

(* ---------------- the parts a run does not use ---------------- *)
\* the open BracketPage instances (two organizers)
Clients == {"a", "b"}

\* no call made yet to tournamentLogic.ts
NoCall ==
  [op |-> "none", enrolledPlayers |-> << >>, championTeam |-> << >>,
   getsBye |-> FALSE, matchId |-> 0, winnerTeamId |-> 0, loserTeamId |-> 0]

\* let teams: Team[] = []; let matchCounter = 0
facadeIdle ==
  /\ teams = << >>
  /\ matchCounter = 0
  /\ call = NoCall

\* no result row stored, every page with an empty matchResults state
pageIdle ==
  /\ cornhole_event_matches = << >>
  /\ matchResults = [c \in Clients |-> << >>]
  /\ lastId = 0
  /\ lastChange = [op |-> "none", id |-> 0, before |-> << >>]

(* ---------------- state machine ---------------- *)
Teams == 1..totalTeams

undecided(m) == m.winner_id = NoTeam
playable(m) == undecided(m) /\ m.team1_id # NoTeam /\ m.team2_id # NoTeam

Init ==
  /\ totalTeams \in 2..MaxTeams
  /\ championGetsBye \in BOOLEAN
  /\ reigning \in {Undefined} \cup (1..totalTeams)
  /\ matches = generateInitialBracket(totalTeams, championGetsBye, reigning)
  /\ completed = [op |-> "build", id |-> 0, winner_id |-> NoTeam, signal |-> "returned"]
  /\ updates = << >>
  /\ resubmits = 0
  /\ facadeIdle
  /\ pageIdle

\* A result is recorded: the caller stores winner_id on an undecided match
\* that has both teams, calls updateBracketAfterMatch on the stored rows and
\* applies every returned mutation.
RecordResult(id, w) ==
  /\ id \in Idx(matches)
  /\ playable(matches[id])
  /\ w \in {matches[id].team1_id, matches[id].team2_id}
  /\ LET stored == [matches EXCEPT ![id].winner_id = w]
         us == updateBracketAfterMatch(stored, id, reigning)
     IN /\ updates' = us
        /\ matches' = applyAll(stored, us)
  /\ completed' = [op |-> "record", id |-> id, winner_id |-> w,
                   signal |-> signalOf(matches, id)]
  /\ UNCHANGED <<totalTeams, championGetsBye, reigning, resubmits, facadeVars, pageVars>>

\* The caller submits an already decided match again: updateBracketAfterMatch
\* runs on the stored rows (winner_id unchanged) and its mutations are applied.
Resubmit(id) ==
  /\ resubmits < MaxResubmits
  /\ resubmits' = resubmits + 1
  /\ id \in Idx(matches)
  /\ matches[id].winner_id # NoTeam
  /\ LET us == updateBracketAfterMatch(matches, id, reigning)
     IN /\ updates' = us
        /\ matches' = applyAll(matches, us)
  /\ completed' = [op |-> "resubmit", id |-> id, winner_id |-> matches[id].winner_id,
                   signal |-> signalOf(matches, id)]
  /\ UNCHANGED <<totalTeams, championGetsBye, reigning, facadeVars, pageVars>>

Next == \E id \in Idx(matches), w \in Teams : RecordResult(id, w)

Spec == Init /\ [][Next]_vars

NextResubmit ==
  \/ \E id \in Idx(matches), w \in Teams : RecordResult(id, w)
  \/ \E id \in Idx(matches) : Resubmit(id)

SpecResubmit == Init /\ [][NextResubmit]_vars

\* Any team list is handed to generateInitialBracket, also fewer than 2 teams.
InitAnyInput ==
  /\ totalTeams \in 0..MaxTeams
  /\ championGetsBye \in BOOLEAN
  /\ reigning \in {Undefined} \cup (1..totalTeams)
  /\ matches = generateInitialBracket(totalTeams, championGetsBye, reigning)
  /\ completed = [op |-> "build", id |-> 0, winner_id |-> NoTeam, signal |-> "returned"]
  /\ updates = << >>
  /\ resubmits = 0
  /\ facadeIdle
  /\ pageIdle

SpecAnyInput == InitAnyInput /\ [][Next]_vars

\* The caller invokes updateBracketAfterMatch with an id that is unknown or
\* names a match without winner, and applies whatever comes back.
AdvanceInvalid(id) ==
  /\ IF id \in Idx(matches) THEN matches[id].winner_id = NoTeam ELSE TRUE
  /\ LET us == updateBracketAfterMatch(matches, id, reigning)
     IN /\ updates' = us
        /\ matches' = applyAll(matches, us)
  /\ completed' = [op |-> "advance", id |-> id, winner_id |-> NoTeam,
                   signal |-> signalOf(matches, id)]
  /\ UNCHANGED <<totalTeams, championGetsBye, reigning, resubmits, facadeVars, pageVars>>

NextInvalid ==
  \/ \E id \in Idx(matches), w \in Teams : RecordResult(id, w)
  \/ \E id \in 1..(Len(matches) + 1) : AdvanceInvalid(id)

SpecInvalid == Init /\ [][NextInvalid]_vars

\* rows whose stored winner is neither of the two teams
foreignCount ==
  Cardinality({i \in Idx(matches) :
                 /\ matches[i].winner_id # NoTeam
                 /\ matches[i].winner_id \notin {matches[i].team1_id, matches[i].team2_id}})

\* The caller stores as winner a team that is not in the match, calls
\* updateBracketAfterMatch and applies every returned mutation.
RecordForeign(id, w) ==
  /\ foreignCount < MaxForeign
  /\ id \in Idx(matches)
  /\ playable(matches[id])
  /\ w \notin {matches[id].team1_id, matches[id].team2_id}
  /\ LET stored == [matches EXCEPT ![id].winner_id = w]
         us == updateBracketAfterMatch(stored, id, reigning)
     IN /\ updates' = us
        /\ matches' = applyAll(stored, us)
  /\ completed' = [op |-> "foreign", id |-> id, winner_id |-> w,
                   signal |-> signalOf(matches, id)]
  /\ UNCHANGED <<totalTeams, championGetsBye, reigning, resubmits, facadeVars, pageVars>>

NextForeign ==
  \/ \E id \in Idx(matches), w \in Teams : RecordResult(id, w)
  \/ \E id \in Idx(matches), w \in Teams : RecordForeign(id, w)

SpecForeign == Init /\ [][NextForeign]_vars

\* A wide bracket with a champion bye, followed for its first results only.
InitWide ==
  /\ totalTeams = WideTeams
  /\ championGetsBye = TRUE
  /\ reigning = totalTeams
  /\ matches = generateInitialBracket(totalTeams, championGetsBye, reigning)
  /\ completed = [op |-> "build", id |-> 0, winner_id |-> NoTeam, signal |-> "returned"]
  /\ updates = << >>
  /\ resubmits = 0
  /\ facadeIdle
  /\ pageIdle

recordedCount == Cardinality({i \in Idx(matches) : matches[i].loser_id # NoTeam})

NextWide ==
  /\ recordedCount < MaxWideResults
  /\ \E id \in Idx(matches), w \in Teams : RecordResult(id, w)

SpecWide == InitWide /\ [][NextWide]_vars

(* ---------------- loss-tracking facade (tournamentLogic.ts) ---------------- *)
\* championTeam not given (undefined)
NoChampion == << >>

\* getNextMatch / getChampionshipMatch returning null
NoMatch == [matchId |-> 0, team1 |-> 0, team2 |-> 0, isChampionship |-> FALSE]

\* `${player1} & ${player2}`: the name is made of the two players, in order
teamName(players) == players

\* a Team as initializeTournament creates it; teamId is the position in teams
\* (generateTeamId yields a fresh id for every team)
Team(teamId, players, isChampion, hadBye) ==
  [teamId |-> teamId, teamName |-> teamName(players), players |-> players,
   losses |-> 0, isChampion |-> isChampion, hadBye |-> hadBye,
   matchHistory |-> << >>, status |-> "active"]

\* remainingPlayers without the filter: the champion's players stay in the pool
remainingPlayers_unfiltered(enrolledPlayers, champTeam) == enrolledPlayers

\* enrolledPlayers.filter(p => !champTeam.players.includes(p)) or a copy
remainingPlayers(enrolledPlayers, champTeam) ==
  IF champTeam # NoChampion
    THEN SelectSeq(enrolledPlayers,
                   LAMBDA p : p # champTeam[1] /\ p # champTeam[2])
    ELSE enrolledPlayers

\* every order shuffleArray can return (Fisher-Yates over Math.random)
shuffleArray(array) ==
  {[i \in 1..Len(array) |-> array[pi[i]]] : pi \in Permutations(1..Len(array))}

\* for (i = 0; i < shuffled.length; i += 2) if (i + 1 < shuffled.length) ...
RECURSIVE pairTeams(_, _, _)
pairTeams(shuffled, i, teamId) ==
  IF i + 1 <= Len(shuffled)
    THEN << Team(teamId, << shuffled[i], shuffled[i + 1] >>, FALSE, FALSE) >>
           \o pairTeams(shuffled, i + 2, teamId + 1)
    ELSE << >>

\* initializeTournament with the outcome of the shuffle made explicit
initializeTournament(champTeam, getsBye, shuffled) ==
  IF champTeam # NoChampion
    THEN << Team(1, champTeam, TRUE, getsBye) >> \o pairTeams(shuffled, 1, 2)
    ELSE pairTeams(shuffled, 1, 1)

isActive(t) == t.status # "eliminated" /\ t.losses < 2

getActiveTeams(ts) == SelectSeq(ts, isActive)

\* isChampionship of getNextMatch when three active teams count as a final too
isChampionship_upToThree(active) == Len(active) <= 3

\* const isChampionship = active.length === 2
isChampionship(active) == Len(active) = 2

\* getNextMatch that leaves the last pairing to getChampionshipMatch
getNextMatch_nullAtTwo(ts, counter) ==
  LET active == getActiveTeams(ts)
  IN IF Len(active) <= 2 THEN NoMatch
     ELSE [matchId |-> counter + 1, team1 |-> active[1].teamId,
           team2 |-> active[2].teamId, isChampionship |-> isChampionship(active)]

getNextMatch(ts, counter) ==
  LET active == getActiveTeams(ts)
  IN IF Len(active) <= 1 THEN NoMatch
     ELSE [matchId |-> counter + 1, team1 |-> active[1].teamId,
           team2 |-> active[2].teamId, isChampionship |-> isChampionship(active)]

getChampionshipMatch(ts, counter) ==
  LET active == getActiveTeams(ts)
  IN IF Len(active) # 2 THEN NoMatch
     ELSE [matchId |-> counter + 1, team1 |-> active[1].teamId,
           team2 |-> active[2].teamId, isChampionship |-> TRUE]

\* statusAfterLoss that eliminates only at a third loss
statusAfterLoss_atThree(t) == IF t.losses = 3 THEN "eliminated" ELSE t.status

\* if (loser.losses === 2) loser.status = "eliminated"
statusAfterLoss(t) == IF t.losses = 2 THEN "eliminated" ELSE t.status

\* crownLastActive that crowns the first active team as soon as two are left
crownLastActive_early(ts) ==
  LET active == getActiveTeams(ts)
  IN IF Len(active) \in {1, 2}
       THEN [ts EXCEPT ![active[1].teamId].status = "champion"]
       ELSE ts

\* if (active.length === 1 && active[0]) active[0].status = "champion"
crownLastActive(ts) ==
  LET active == getActiveTeams(ts)
  IN IF Len(active) = 1
       THEN [ts EXCEPT ![active[1].teamId].status = "champion"]
       ELSE ts

\* teams.find(t => t.teamId === id) found something
knownTeam(ts, id) == id \in Idx(ts)

\* recordMatchResult that charges the loss to the winner
recordMatchResult_winnerLoses(ts, matchId, winnerTeamId, loserTeamId) ==
  LET t1 == [ts EXCEPT ![winnerTeamId].losses = @ + 1]
      t2 == [t1 EXCEPT ![winnerTeamId].status = statusAfterLoss(t1[winnerTeamId])]
      t3 == [t2 EXCEPT ![winnerTeamId].matchHistory =
               Append(@, [matchId |-> matchId, result |-> "W",
                          opponent |-> t2[loserTeamId].teamName])]
      t4 == [t3 EXCEPT ![loserTeamId].matchHistory =
               Append(@, [matchId |-> matchId, result |-> "L",
                          opponent |-> t3[winnerTeamId].teamName])]
  IN crownLastActive(t4)

\* recordMatchResult for two known team ids, statement by statement
recordMatchResult(ts, matchId, winnerTeamId, loserTeamId) ==
  LET t1 == [ts EXCEPT ![loserTeamId].losses = @ + 1]
      t2 == [t1 EXCEPT ![loserTeamId].status = statusAfterLoss(t1[loserTeamId])]
      t3 == [t2 EXCEPT ![winnerTeamId].matchHistory =
               Append(@, [matchId |-> matchId, result |-> "W",
                          opponent |-> t2[loserTeamId].teamName])]
      t4 == [t3 EXCEPT ![loserTeamId].matchHistory =
               Append(@, [matchId |-> matchId, result |-> "L",
                          opponent |-> t3[winnerTeamId].teamName])]
  IN crownLastActive(t4)

\* isComplete that waits until no team at all is active
isComplete_none(ts) == Len(getActiveTeams(ts)) = 0

\* getTournamentStatus().isComplete
isComplete(ts) == Len(getActiveTeams(ts)) <= 1

\* getTournamentStatus().championshipReady
championshipReady(ts) == Len(getActiveTeams(ts)) = 2

\* getTournamentStatus().eliminatedTeams
eliminatedTeams(ts) == SelectSeq(ts, LAMBDA t : t.status = "eliminated")

\* the lists of players handed to initializeTournament: distinct players,
\* numbered in list order
EnrolledInputs == {[i \in 1..n |-> i] : n \in 0..MaxPlayers}

\* the champion teams handed to initializeTournament: none, two enrolled
\* players, an enrolled and an outside player, two outside players
ChampionInputs ==
  {NoChampion, <<1, 2>>, <<1, MaxPlayers + 1>>, <<MaxPlayers + 1, MaxPlayers + 2>>}

InitFacade ==
  /\ totalTeams = 0
  /\ championGetsBye = FALSE
  /\ reigning = Undefined
  /\ matches = << >>
  /\ completed = [op |-> "none", id |-> 0, winner_id |-> NoTeam, signal |-> "returned"]
  /\ updates = << >>
  /\ resubmits = 0
  /\ facadeIdle
  /\ pageIdle

\* initializeTournament is called once on the fresh module
Initialize(enrolledPlayers, champTeam, getsBye) ==
  /\ call.op = "none"
  /\ \E shuffled \in shuffleArray(remainingPlayers(enrolledPlayers, champTeam)) :
       teams' = initializeTournament(champTeam, getsBye, shuffled)
  /\ matchCounter' = 0
  /\ call' = [op |-> "initializeTournament", enrolledPlayers |-> enrolledPlayers,
              championTeam |-> champTeam, getsBye |-> getsBye,
              matchId |-> 0, winnerTeamId |-> 0, loserTeamId |-> 0]
  /\ UNCHANGED <<totalTeams, championGetsBye, reigning, bracketVars, pageVars>>

\* the match the tournament loop takes: getChampionshipMatch when
\* championshipReady, else getNextMatch
offeredMatch(ts, counter) ==
  IF championshipReady(ts) THEN getChampionshipMatch(ts, counter)
  ELSE getNextMatch(ts, counter)

\* One round of the tournament loop: take the offered match and record a
\* result between its two teams.
PlayOffered(firstWins) ==
  /\ call.op # "none"
  /\ ~isComplete(teams)
  /\ LET m == offeredMatch(teams, matchCounter)
         w == IF firstWins THEN m.team1 ELSE m.team2
         l == IF firstWins THEN m.team2 ELSE m.team1
     IN /\ m # NoMatch
        /\ matchCounter' = m.matchId
        /\ teams' = recordMatchResult(teams, m.matchId, w, l)
        /\ call' = [op |-> "recordMatchResult", enrolledPlayers |-> << >>,
                    championTeam |-> << >>, getsBye |-> FALSE,
                    matchId |-> m.matchId, winnerTeamId |-> w, loserTeamId |-> l]
  /\ UNCHANGED <<totalTeams, championGetsBye, reigning, bracketVars, pageVars>>

\* number of results recorded so far: every result adds one loss
RECURSIVE recordedResults(_)
recordedResults(ts) ==
  IF ts = << >> THEN 0 ELSE Head(ts).losses + recordedResults(Tail(ts))

\* recordMatchResult called with any two known team ids, whatever the state
RecordAny(winnerTeamId, loserTeamId) ==
  /\ call.op # "none"
  /\ recordedResults(teams) < MaxAnyResults
  /\ knownTeam(teams, winnerTeamId)
  /\ knownTeam(teams, loserTeamId)
  /\ LET matchId == recordedResults(teams) + 1
     IN /\ teams' = recordMatchResult(teams, matchId, winnerTeamId, loserTeamId)
        /\ call' = [op |-> "recordMatchResult", enrolledPlayers |-> << >>,
                    championTeam |-> << >>, getsBye |-> FALSE,
                    matchId |-> matchId, winnerTeamId |-> winnerTeamId,
                    loserTeamId |-> loserTeamId]
  /\ UNCHANGED <<totalTeams, championGetsBye, reigning, bracketVars, pageVars,
                 matchCounter>>

NextFacade ==
  \/ \E e \in EnrolledInputs, c \in ChampionInputs, b \in BOOLEAN : Initialize(e, c, b)
  \/ \E firstWins \in BOOLEAN : PlayOffered(firstWins)

SpecFacade == InitFacade /\ [][NextFacade]_vars

\* the loop keeps running while a match is offered
SpecFacadeFair == SpecFacade /\ WF_vars(NextFacade)

NextFacadeAny ==
  \/ \E e \in EnrolledInputs, c \in ChampionInputs, b \in BOOLEAN : Initialize(e, c, b)
  \/ \E w \in Idx(teams), l \in Idx(teams) : RecordAny(w, l)

SpecFacadeAny == InitFacade /\ [][NextFacadeAny]_vars

\* recordMatchResult called with any two different known teams
NextFacadePairs ==
  \/ \E e \in EnrolledInputs, c \in ChampionInputs, b \in BOOLEAN : Initialize(e, c, b)
  \/ \E w \in Idx(teams) : \E l \in Idx(teams) \ {w} : RecordAny(w, l)

SpecFacadePairs == InitFacade /\ [][NextFacadePairs]_vars

(* ---------------- loss-tracking page (BracketPage.tsx, matches.ts) ---------------- *)
\* a stored result row as the page inserts it
ResultRow(id, winnerId, loserId, team1, team2, matchNumber) ==
  [id |-> id, winner_id |-> winnerId, loser_id |-> loserId, created_at |-> id,
   team1_id |-> team1, team2_id |-> team2, match_number |-> matchNumber]

\* the event's teams as loadTournament reads them, in id order
loadedTeams(n) == [i \in 1..n |-> i]

\* lossCount = matchesData.filter(m => m.loser_id === team.id).length
lossCount(t, results) == Cardinality({k \in Idx(results) : results[k].loser_id = t})

\* isEliminated = lossCount >= 2
isEliminated(t, results) == lossCount(t, results) >= 2

\* teams.filter(t => !t.isEliminated)
activeTeams(n, results) ==
  SelectSeq(loadedTeams(n), LAMBDA t : ~isEliminated(t, results))

\* setTournamentComplete(...) at the end of loadTournament
tournamentComplete(n, results) ==
  \/ Len(activeTeams(n, results)) = 1
  \/ Len(activeTeams(n, results)) = 0 /\ n > 0

getTeamMatchCount(t, results) ==
  Cardinality({k \in Idx(results) :
                 results[k].winner_id = t \/ results[k].loser_id = t})

\* matchResults.some(m => m.winner_id === t.id || m.loser_id === t.id)
hasPlayed(t, results) == getTeamMatchCount(t, results) > 0

\* the two teams of the row with the latest created_at (empty without rows)
recentMatchTeamIds(results) ==
  IF results = << >> THEN {}
  ELSE LET k == CHOOSE k \in Idx(results) :
                  \A j \in Idx(results) :
                    \/ results[j].created_at < results[k].created_at
                    \/ results[j].created_at = results[k].created_at /\ k <= j
       IN {results[k].winner_id, results[k].loser_id}

\* list.sort((a, b) => aGames - bGames): stable, fewest games first
RECURSIVE sortFrom(_, _, _)
sortFrom(list, results, games) ==
  IF games > Len(results) THEN << >>
  ELSE SelectSeq(list, LAMBDA t : getTeamMatchCount(t, results) = games)
         \o sortFrom(list, results, games + 1)

sortTeams(list, results) == sortFrom(list, results, 0)

\* for (let i = from; i < list.length - 1; i += 2) push {list[i], list[i + 1]}
\* (i counts from 1 here)
\* pairUp that moves on by one team: the second of a pair opens the next
RECURSIVE pairUp_overlapping(_, _)
pairUp_overlapping(list, i) ==
  IF i < Len(list)
    THEN << [team1 |-> list[i], team2 |-> list[i + 1]] >>
           \o pairUp_overlapping(list, i + 1)
    ELSE << >>

RECURSIVE pairUp(_, _)
pairUp(list, i) ==
  IF i < Len(list)
    THEN << [team1 |-> list[i], team2 |-> list[i + 1]] >> \o pairUp(list, i + 2)
    ELSE << >>

\* shouldExcludeRecentTeams that excludes the last two teams whoever is left
shouldExcludeRecentTeams_always(teamsExcludingRecent) == TRUE

\* const shouldExcludeRecentTeams = teamsExcludingRecent.length >= 2
shouldExcludeRecentTeams(teamsExcludingRecent) == Len(teamsExcludingRecent) >= 2

getSuggestedMatches(n, championId, byeOption, results) ==
  LET active == activeTeams(n, results)
      inActive(t) == \E k \in Idx(active) : active[k] = t
      championByeEnabled == byeOption /\ championId \in 1..n /\ inActive(championId)
      requiringFirstMatch ==
        SelectSeq(active, LAMBDA t :
          ~(championByeEnabled /\ t = championId) /\ ~hasPlayed(t, results))
      allNonChampionTeamsHavePlayed == Len(requiringFirstMatch) = 0
      shouldExcludeChampion == championByeEnabled /\ ~allNonChampionTeamsHavePlayed
      recent == recentMatchTeamIds(results)
      teamsExcludingRecent ==
        SelectSeq(active, LAMBDA t :
          ~(shouldExcludeChampion /\ t = championId) /\ t \notin recent)
      excludeRecent == shouldExcludeRecentTeams(teamsExcludingRecent)
      undefeatedTeams ==
        sortTeams(SelectSeq(active, LAMBDA t :
                    /\ ~(shouldExcludeChampion /\ t = championId)
                    /\ ~(excludeRecent /\ t \in recent)
                    /\ lossCount(t, results) = 0),
                  results)
      oneLossTeams ==
        sortTeams(SelectSeq(active, LAMBDA t :
                    /\ ~(excludeRecent /\ t \in recent)
                    /\ lossCount(t, results) = 1),
                  results)
  IN IF Len(active) < 2 THEN << >>
     ELSE IF Len(active) = 2
       THEN << [team1 |-> active[1], team2 |-> active[2]] >>
     ELSE pairUp(undefeatedTeams, 1)
            \o (IF Len(undefeatedTeams) % 2 = 1 /\ Len(oneLossTeams) > 0
                  THEN << [team1 |-> undefeatedTeams[Len(undefeatedTeams)],
                           team2 |-> oneLossTeams[1]] >>
                         \o (IF allNonChampionTeamsHavePlayed /\ Len(oneLossTeams) > 1
                               THEN pairUp(oneLossTeams, 2)
                               ELSE << >>)
                  ELSE IF allNonChampionTeamsHavePlayed /\ Len(oneLossTeams) >= 2
                         THEN pairUp(oneLossTeams, 1)
                         ELSE << >>)

\* the matchups a page shows, computed from what it has loaded
shownMatches(c) ==
  IF tournamentComplete(totalTeams, matchResults[c]) THEN << >>
  ELSE getSuggestedMatches(totalTeams, reigning, championGetsBye, matchResults[c])

\* the page opened on an event with its teams and no result yet
InitPage ==
  /\ totalTeams \in 0..MaxPageTeams
  /\ championGetsBye \in BOOLEAN
  /\ reigning \in {Undefined} \cup (1..totalTeams)
  /\ matches = << >>
  /\ completed = [op |-> "none", id |-> 0, winner_id |-> NoTeam, signal |-> "returned"]
  /\ updates = << >>
  /\ resubmits = 0
  /\ facadeIdle
  /\ pageIdle

\* setChampion(...) at the end of loadTournament: the only team left, or the
\* first team with the fewest losses when none is left, or null
champion(n, results) ==
  LET active == activeTeams(n, results)
  IN IF Len(active) = 1 THEN active[1]
     ELSE IF Len(active) = 0 /\ n > 0
       THEN CHOOSE t \in 1..n :
              \A u \in 1..n :
                \/ lossCount(t, results) < lossCount(u, results)
                \/ lossCount(t, results) = lossCount(u, results) /\ t <= u
     ELSE NoTeam

\* what loadTournament derives from the stored rows and shows
standings(n, results) ==
  [lossCount |-> [t \in 1..n |-> lossCount(t, results)],
   isEliminated |-> [t \in 1..n |-> isEliminated(t, results)],
   tournamentComplete |-> tournamentComplete(n, results),
   champion |-> champion(n, results)]

\* matches-delete that removes nothing
deleteRow_none(rows, id) == rows

\* matches-delete: DELETE FROM ... WHERE id = @id
deleteRow(rows, id) == SelectSeq(rows, LAMBDA row : row.id # id)

\* matches-create: the store appends the row under a fresh id
insertRow(winnerId, loserId, team1, team2, matchNumber) ==
  /\ cornhole_event_matches' =
       Append(cornhole_event_matches,
              ResultRow(lastId + 1, winnerId, loserId, team1, team2, matchNumber))
  /\ lastId' = lastId + 1
  /\ lastChange' = [op |-> "insert", id |-> lastId + 1,
                    before |-> standings(totalTeams, cornhole_event_matches)]

\* recordQuickMatchResult up to the insert: a click on a team of a shown
\* matchup sends the row, and matches-create stores it
recordQuickMatchResult(c, k, firstWins) ==
  /\ k \in Idx(shownMatches(c))
  /\ LET match == shownMatches(c)[k]
         winnerId == IF firstWins THEN match.team1 ELSE match.team2
         loserId == IF firstWins THEN match.team2 ELSE match.team1
     IN insertRow(winnerId, loserId, match.team1, match.team2, Len(matchResults[c]))
  /\ UNCHANGED <<totalTeams, championGetsBye, reigning, bracketVars, facadeVars,
                 matchResults>>

\* the teams the Record Match dialog lists for a slot
selectable(c, other) ==
  {t \in 1..totalTeams : ~isEliminated(t, matchResults[c]) /\ t # other}

\* recordMatchResult of the Record Match dialog: two teams picked by hand, a
\* click on the winner, the insert, then loadTournament
recordMatchResultByHand(c, team1, team2, firstWins) ==
  /\ ~tournamentComplete(totalTeams, matchResults[c])
  /\ totalTeams >= 2
  /\ team1 \in selectable(c, NoTeam)
  /\ team2 \in selectable(c, team1)
  /\ LET winnerId == IF firstWins THEN team1 ELSE team2
         loserId == IF firstWins THEN team2 ELSE team1
     IN insertRow(winnerId, loserId, team1, team2, Len(matchResults[c]))
  /\ matchResults' = [matchResults EXCEPT ![c] = cornhole_event_matches']
  /\ UNCHANGED <<totalTeams, championGetsBye, reigning, bracketVars, facadeVars>>

\* deleteMatchResult: a click on the bin of a row of the match history, which
\* the page shows while it is not complete, the delete, then loadTournament
deleteMatchResult(c, k) ==
  /\ ~tournamentComplete(totalTeams, matchResults[c])
  /\ k \in Idx(matchResults[c])
  /\ LET matchId == matchResults[c][k].id
     IN /\ cornhole_event_matches' = deleteRow(cornhole_event_matches, matchId)
        /\ lastChange' = [op |-> "delete", id |-> matchId,
                          before |-> lastChange.before]
  /\ matchResults' = [matchResults EXCEPT ![c] = cornhole_event_matches']
  /\ UNCHANGED <<totalTeams, championGetsBye, reigning, bracketVars, facadeVars,
                 lastId>>

\* loadTournament: the page replaces its matchResults by the stored rows
loadTournament(c) ==
  /\ matchResults[c] # cornhole_event_matches
  /\ matchResults' = [matchResults EXCEPT ![c] = cornhole_event_matches]
  /\ UNCHANGED <<totalTeams, championGetsBye, reigning, bracketVars, facadeVars,
                 cornhole_event_matches, lastId, lastChange>>

\* two open pages on which the shown matchups are clicked
NextPage ==
  \/ \E c \in Clients, k \in 1..MaxPageTeams, firstWins \in BOOLEAN :
       lastId < MaxRows /\ recordQuickMatchResult(c, k, firstWins)
  \/ \E c \in Clients : loadTournament(c)

SpecPage == InitPage /\ [][NextPage]_vars

\* the page of the organizer who runs the tournament alone
Organizer == "a"

\* one open page and an event of up to MaxSuggestedTeams teams
InitSuggested ==
  /\ totalTeams \in 0..MaxSuggestedTeams
  /\ championGetsBye \in BOOLEAN
  /\ reigning \in {Undefined} \cup (1..totalTeams)
  /\ matches = << >>
  /\ completed = [op |-> "none", id |-> 0, winner_id |-> NoTeam, signal |-> "returned"]
  /\ updates = << >>
  /\ resubmits = 0
  /\ facadeIdle
  /\ pageIdle

\* recordQuickMatchResult as a whole on the one open page: the insert, then
\* loadTournament (the matchups are not shown while the page is loading)
PlaySuggested(c, k, firstWins) ==
  /\ k \in Idx(shownMatches(c))
  /\ LET match == shownMatches(c)[k]
         winnerId == IF firstWins THEN match.team1 ELSE match.team2
         loserId == IF firstWins THEN match.team2 ELSE match.team1
     IN insertRow(winnerId, loserId, match.team1, match.team2, Len(matchResults[c]))
  /\ matchResults' = [matchResults EXCEPT ![c] = cornhole_event_matches']
  /\ UNCHANGED <<totalTeams, championGetsBye, reigning, bracketVars, facadeVars>>

NextSuggested ==
  \E k \in 1..MaxSuggestedTeams, firstWins \in BOOLEAN :
    PlaySuggested(Organizer, k, firstWins)

SpecSuggested == InitSuggested /\ [][NextSuggested]_vars

\* the one open page with everything it offers: the shown matchups, the
\* Record Match dialog and the bins of the match history. The two slots of
\* the dialog are filled in list order: the other order only swaps the stored
\* team1_id and team2_id, which loadTournament does not select.
NextPageEdit ==
  \/ \E k \in 1..MaxSuggestedTeams, firstWins \in BOOLEAN :
       lastId < MaxEditRows /\ PlaySuggested(Organizer, k, firstWins)
  \/ \E team1 \in Teams, team2 \in Teams, firstWins \in BOOLEAN :
       /\ lastId < MaxEditRows
       /\ team1 < team2
       /\ recordMatchResultByHand(Organizer, team1, team2, firstWins)
  \/ \E k \in 1..MaxEditRows : deleteMatchResult(Organizer, k)

SpecPageEdit == InitSuggested /\ [][NextPageEdit]_vars

\* the organizer keeps recording while a matchup is shown
SpecSuggestedFair == SpecSuggested /\ WF_vars(NextSuggested)

(* ---------------- derived bracket facts ---------------- *)
grandFinalId == FindRound(matches, 0)

\* number of decided matches a team has lost
losses(t) == Cardinality({i \in Idx(matches) :
                            matches[i].winner_id # NoTeam /\ matches[i].loser_id = t})

occupies(t, m) == m.team1_id = t \/ m.team2_id = t

inUndecided(t) == \E i \in Idx(matches) : undecided(matches[i]) /\ occupies(t, matches[i])

grandFinalDecided ==
  /\ grandFinalId # 0
  /\ matches[grandFinalId].winner_id # NoTeam
  /\ matches[grandFinalId].team1_id # NoTeam
  /\ matches[grandFinalId].team2_id # NoTeam

anyPlayable == \E i \in Idx(matches) : playable(matches[i])

\* C1: from generateInitialBracket, recording results for playable matches
\* always leads to a decided grand final; in particular no reachable state
\* has an undecided grand final and no playable match.
C1_NeverStuck == grandFinalDecided \/ anyPlayable

\* C2: every team with fewer than two losses occupies a slot of an undecided
\* match or is the winner of the grand final.
C2_MustLoseTwice ==
  \A t \in Teams :
    losses(t) < 2 =>
      \/ inUndecided(t)
      \/ (grandFinalId # 0 /\ matches[grandFinalId].winner_id = t)

\* C3: a team with two losses is out: it occupies no slot of an undecided
\* match, and the loser of a losers-bracket match is placed nowhere.
C3_TwoLossesOut ==
  /\ \A t \in Teams : losses(t) >= 2 => ~inUndecided(t)
  /\ (completed.op = "record" /\ matches[completed.id].round < 0) =>
       \A k \in Idx(updates) :
         LET u == updates[k]
             l == matches[completed.id].loser_id
         IN /\ ("team1_id" \in u.set => u.row.team1_id # l)
            /\ ("team2_id" \in u.set => u.row.team2_id # l)

\* witness of C3: a losers-bracket result was recorded and its loser now has
\* two losses
C3_Witness ==
  /\ completed.op = "record"
  /\ matches[completed.id].round < 0
  /\ losses(matches[completed.id].loser_id) = 2

(* ---------------- the initial bracket ---------------- *)
winnersRows == {i \in Idx(matches) : matches[i].round > 0}
byeRows == {i \in winnersRows : matches[i].is_bye}

\* C4: generateInitialBracket yields nextPow2(n) - 1 winners-bracket matches,
\* nextPow2(n) - n of them byes.
C4_BracketSize ==
  completed.op = "build" =>
    /\ Cardinality(winnersRows) = nextPow2(totalTeams) - 1
    /\ Cardinality(byeRows) = nextPow2(totalTeams) - totalTeams

\* C5: with championGetsBye and a flagged champion, the champion is in no
\* round-1 match and sits in a round-2 slot, for every team count.
C5_ChampionBye ==
  (completed.op = "build" /\ championGetsBye /\ reigning # Undefined) =>
    /\ \A i \in Idx(matches) : matches[i].round = 1 => ~occupies(reigning, matches[i])
    /\ \E i \in Idx(matches) : matches[i].round = 2 /\ occupies(reigning, matches[i])

(* ---------------- the bye sweep ---------------- *)
sweepOf(us) == {k \in Idx(us) : us[k].src = "sweep"}

placesTeam(u, t) ==
  \/ ("team1_id" \in u.set /\ u.row.team1_id = t)
  \/ ("team2_id" \in u.set /\ u.row.team2_id = t)

\* One step of C6: no sweep mutation resolves a match that holds the champion
\* in the rows the sweep examines, none forwards the champion, and the champion
\* enters a new slot only through a recorded result of a match it played in.
C6_ChampionStep ==
  reigning # Undefined =>
    /\ \A k \in sweepOf(updates') :
         LET u == updates'[k]
         IN /\ ~placesTeam(u, reigning)
            /\ "winner_id" \in u.set =>
                 (u.row.winner_id # reigning /\ ~occupies(reigning, matches[u.id]))
    /\ \A i \in Idx(matches') :
         (occupies(reigning, matches'[i])
            /\ (i \in Idx(matches) => ~occupies(reigning, matches[i])))
         => (completed'.op = "record" /\ occupies(reigning, matches[completed'.id]))

feedersOf(r, k) ==
  {j \in Idx(matches) :
     /\ matches[j].round = r - 1
     /\ matches[j].round > 0
     /\ (IF r - 1 = 1 /\ CountRound(matches, 1) > 0 /\ CountRound(matches, 2) > 0
           THEN (matches[j].match_number * CountRound(matches, 2))
                  \div CountRound(matches, 1)
           ELSE matches[j].match_number \div 2) = k}

\* C7: a match auto-resolved by the sweep has exactly one populated slot after
\* the call (its sibling slot was not filled by the result being processed)
\* and no undecided feeder (its sibling slot can never be filled).
C7_RealByesOnly ==
  \A k \in sweepOf(updates) :
    "winner_id" \in updates[k].set =>
      LET m == matches[updates[k].id]
      IN /\ (m.team1_id = NoTeam) # (m.team2_id = NoTeam)
         /\ \A j \in feedersOf(m.round, m.match_number) : ~undecided(matches[j])

(* ---------------- re-submission ---------------- *)
\* C8: submitting an already applied result again returns no mutations.
C8_ResubmitRejected == completed.op = "resubmit" => updates = << >>

(* ---------------- grand final ---------------- *)
\* C9: a grand final won by team1 creates no further match; a grand final won
\* by team2 yields a second grand-final match between the same two teams.
C9_GrandFinalReset ==
  (completed.op = "record" /\ matches[completed.id].round = 0) =>
    LET gf == matches[completed.id]
    IN IF gf.winner_id = gf.team1_id
         THEN \A k \in Idx(updates) : updates[k].id # 0
         ELSE \E i \in Idx(matches) :
                /\ i # completed.id
                /\ matches[i].round = 0
                /\ {matches[i].team1_id, matches[i].team2_id}
                     = {gf.team1_id, gf.team2_id}

(* ---------------- forwarding the winner ---------------- *)
recordedWinners ==
  /\ completed.op = "record"
  /\ matches[completed.id].round > 0

\* the mutations of the last call that write the recorded winner into a slot
\* of a winners-bracket or grand-final row
winnerWrites ==
  {k \in Idx(updates) :
     /\ updates[k].src = "advance"
     /\ updates[k].id # 0
     /\ placesTeam(updates[k], completed.winner_id)}

forwardedTo(r, k) ==
  LET c == matches[completed.id]
  IN IF CountRound(matches, c.round + 1) > 0
       THEN /\ winnerWrites # {}
            /\ \A w \in winnerWrites :
                 /\ matches[updates[w].id].round = r
                 /\ matches[updates[w].id].match_number = k
       ELSE /\ winnerWrites # {}
            /\ \A w \in winnerWrites :
                 /\ matches[updates[w].id].round = 0
                 /\ "team1_id" \in updates[w].set

\* C10 as stated: the winner of round r, slot s goes to round r + 1, slot
\* floor(s / 2) in every bracket shape, and to the grand final's team1 only
\* when there is no further winners round.
C10_HalvingEverywhere ==
  recordedWinners =>
    forwardedTo(matches[completed.id].round + 1,
                matches[completed.id].match_number \div 2)

\* C10 as amended: from round 2 on the target slot is floor(s / 2); from
\* round 1 it is floor(s * (round-2 match count) / (round-1 match count)).
C10_ForwardWinner ==
  recordedWinners =>
    LET c == matches[completed.id]
    IN forwardedTo(c.round + 1,
                   IF c.round = 1
                     THEN (c.match_number * CountRound(matches, 2))
                            \div CountRound(matches, 1)
                     ELSE c.match_number \div 2)

\* witness of C10: round 1, slot 1 of a bracket built with a champion bye,
\* where the two rules differ
C10_Witness ==
  /\ recordedWinners
  /\ championTeam(totalTeams, championGetsBye, reigning) # Undefined
  /\ matches[completed.id].round = 1
  /\ matches[completed.id].match_number = 1

(* ---------------- a Round-1 result ---------------- *)
\* the state after a step that recorded a non-bye Round-1 result
roundOneRecorded ==
  /\ completed'.op = "record"
  /\ matches[completed'.id].round = 1

\* the loser of the recorded match sits in losers round -1, slot floor(s / 2),
\* in team1 if s is even, else team2
loserInRoundMinusOne ==
  LET c == matches'[completed'.id]
      lb == FindMatch(matches', -1, c.match_number \div 2)
  IN /\ lb # 0
     /\ IF c.match_number % 2 = 0
          THEN matches'[lb].team1_id = c.loser_id
          ELSE matches'[lb].team2_id = c.loser_id

C11_ParityStep ==
  roundOneRecorded =>
    LET c == matches'[completed'.id]
        r2 == FindMatch(matches', 2, c.match_number \div 2)
    IN /\ CountRound(matches, 2) > 0 =>
            /\ r2 # 0
            /\ \E k \in Idx(updates') :
                 /\ updates'[k].src = "advance"
                 /\ updates'[k].id = r2
                 /\ IF c.match_number % 2 = 0
                      THEN "team1_id" \in updates'[k].set
                             /\ updates'[k].row.team1_id = c.winner_id
                      ELSE "team2_id" \in updates'[k].set
                             /\ updates'[k].row.team2_id = c.winner_id
       /\ loserInRoundMinusOne

\* C11 as stated: a Round-1 result for slot s puts the winner in Round 2,
\* slot floor(s / 2), as team1 if s is even and team2 if s is odd, whatever
\* the order of the sibling results, and the loser in losers round -1.
C11_ParityPlacement == [][C11_ParityStep]_vars

C11_FirstEmptyStep ==
  roundOneRecorded =>
    LET c == matches'[completed'.id]
        slot == (c.match_number * CountRound(matches, 2)) \div CountRound(matches, 1)
        r2 == FindMatch(matches, 2, slot)
    IN /\ CountRound(matches, 2) > 0 =>
            /\ r2 # 0
            /\ (matches[r2].team1_id # NoTeam /\ matches[r2].team2_id # NoTeam)
               \/ \E k \in Idx(updates') :
                 /\ updates'[k].src = "advance"
                 /\ updates'[k].id = r2
                 /\ IF matches[r2].team1_id = NoTeam
                      THEN "team1_id" \in updates'[k].set
                             /\ updates'[k].row.team1_id = c.winner_id
                      ELSE "team2_id" \in updates'[k].set
                             /\ updates'[k].row.team2_id = c.winner_id
       /\ loserInRoundMinusOne

\* C11 as amended: the winner goes to Round 2, slot
\* floor(s * (Round-2 match count) / (Round-1 match count)), into team1 if it
\* is empty when the result is recorded and else into team2 if that is empty;
\* the loser goes to losers round -1, slot floor(s / 2), by the parity of s.
C11_FirstEmptyPlacement == [][C11_FirstEmptyStep]_vars

\* witness of C11: the result of an odd Round-1 slot was recorded first and
\* its winner holds team1 of the Round-2 match
C11_Witness ==
  /\ completed.op = "record"
  /\ matches[completed.id].round = 1
  /\ matches[completed.id].match_number % 2 = 1
  /\ \E i \in Idx(matches) :
       /\ matches[i].round = 2
       /\ matches[i].team1_id = completed.winner_id

(* ---------------- dropping the loser ---------------- *)
\* the mutations of the last call that write team t into a slot (inserts too)
placements(t) == {k \in Idx(updates) : placesTeam(updates[k], t)}

claimedLosersRound(r) == IF r = 1 THEN -1 ELSE IF r = 2 THEN -4 ELSE -(2 * r - 2)

\* C12: the loser of a non-bye winners-bracket match at round r, slot s is
\* routed to losers round -1 (r = 1), -4 (r = 2) or -(2r - 2) (r >= 3), slot
\* floor(s / 2); a created match holds it in team1 if s is even, else team2.
C12_LoserRouting ==
  recordedWinners =>
    LET c == matches[completed.id]
        T == claimedLosersRound(c.round)
        K == c.match_number \div 2
    IN /\ FindMatch(matches, T, K) # 0
       /\ \A k \in placements(c.loser_id) :
            LET u == updates[k]
            IN IF u.id = 0
                 THEN /\ u.row.round = T
                      /\ u.row.match_number = K
                      /\ IF c.match_number % 2 = 0
                           THEN u.row.team1_id = c.loser_id /\ u.row.team2_id = NoTeam
                           ELSE u.row.team2_id = c.loser_id /\ u.row.team1_id = NoTeam
                 ELSE /\ matches[u.id].round = T
                      /\ matches[u.id].match_number = K

\* C13: after the mutations for a non-bye winners-bracket result are applied
\* the loser occupies a slot of a losers-bracket match (it took an empty slot
\* of the target match and no other loser was routed to its slot).
C13_LoserKept ==
  recordedWinners =>
    \E i \in Idx(matches) :
      /\ matches[i].round < 0
      /\ occupies(matches[completed.id].loser_id, matches[i])

(* ---------------- a losers-bracket result ---------------- *)
recordedLosers ==
  /\ completed.op = "record"
  /\ matches[completed.id].round < 0

\* teams other than t that still wait in an undecided losers-bracket match
otherSurvivors(t) ==
  {x \in Teams \ {t} :
     \E i \in Idx(matches) :
       matches[i].round < 0 /\ undecided(matches[i]) /\ occupies(x, matches[i])}

\* C14: the winner of losers round r, slot s goes to round r - 1, slot
\* floor(s / 2), into team1 if |r - 1| is odd and else by the parity of s; it
\* becomes the grand final's team2 only as the last surviving losers team.
C14_LosersAdvance ==
  recordedLosers =>
    LET c == matches[completed.id]
        w == c.winner_id
        top == (-(c.round - 1)) % 2 = 1 \/ c.match_number % 2 = 0
    IN /\ placements(w) # {}
       /\ \A k \in placements(w) :
            LET u == updates[k]
                row == IF u.id = 0 THEN u.row ELSE matches[u.id]
            IN IF row.round = 0
                 THEN /\ "team2_id" \in u.set
                      /\ otherSurvivors(w) = {}
                 ELSE /\ row.round = c.round - 1
                      /\ row.match_number = c.match_number \div 2
                      /\ IF top THEN "team1_id" \in u.set /\ u.row.team1_id = w
                                ELSE "team2_id" \in u.set /\ u.row.team2_id = w

(* ---------------- frame of a call ---------------- *)
C15_FrameStep ==
  \A k \in Idx(updates') :
    (updates'[k].id # 0 /\ updates'[k].id # completed'.id)
      => matches[updates'[k].id].winner_id = NoTeam

\* C15: the mutations returned by a call update no match that already has a
\* winner, other than the completed match itself.
C15_DecidedUntouched == [][C15_FrameStep]_vars

\* C16: every match with a winner is a non-bye whose winner and loser are its
\* team1 and team2 in some order, or a bye with loser null, exactly one
\* populated slot and the winner in that slot.
C16_MatchInvariant ==
  \A i \in Idx(matches) :
    LET m == matches[i]
    IN m.winner_id # NoTeam =>
         IF m.is_bye
           THEN /\ m.loser_id = NoTeam
                /\ (m.team1_id = NoTeam) # (m.team2_id = NoTeam)
                /\ m.winner_id \in {m.team1_id, m.team2_id}
           ELSE /\ m.team1_id # NoTeam
                /\ m.team2_id # NoTeam
                /\ m.team1_id # m.team2_id
                /\ {m.winner_id, m.loser_id} = {m.team1_id, m.team2_id}

(* ---------------- addressing ---------------- *)
\* C17: no two matches share (round, match_number) and exactly one round-0
\* match exists, after the build and after every applied call.
C17_UniqueAddress ==
  /\ \A i, j \in Idx(matches) :
       (matches[i].round = matches[j].round
          /\ matches[i].match_number = matches[j].match_number) => i = j
  /\ CountRound(matches, 0) = 1

\* witness of C17: the last call created a losers match lazily while an
\* earlier losers match has been filled from both sides
C17_Witness ==
  /\ \E k \in Idx(updates) : updates[k].id = 0
  /\ \E i \in Idx(matches) :
       /\ matches[i].round < 0
       /\ matches[i].team1_id # NoTeam
       /\ matches[i].team2_id # NoTeam

(* ---------------- scaffolding ---------------- *)
isEmptyRow(m) ==
  /\ m.team1_id = NoTeam /\ m.team2_id = NoTeam
  /\ m.winner_id = NoTeam /\ m.loser_id = NoTeam /\ ~m.is_bye

roundOneByeWinners ==
  {matches[i].winner_id : i \in {j \in Idx(matches) :
                                   matches[j].round = 1 /\ matches[j].is_bye}}

C19_InvalidInputRejected ==
  (completed.op = "build" /\ totalTeams < 2) =>
    matches = << >>

C20_EmptyStep ==
  completed'.op = "advance" =>
    /\ updates' = << >>
    /\ matches' = matches
    /\ completed'.signal = "returned"

C21_AmbiguousRejected ==
  completed.op = "foreign" =>
    /\ updates = << >>
    /\ matches[completed.id].loser_id = NoTeam
    /\ \A k \in Idx(updates) : ~placesTeam(updates[k], completed.winner_id)

(* ---------------- loss-tracking facade: derived facts ---------------- *)
initialized == call.op # "none"

\* matches a team has played so far
played(i) == Len(teams[i].matchHistory)

activeIds == {i \in Idx(teams) : teams[i].status # "eliminated" /\ teams[i].losses < 2}

activeCount == Cardinality(activeIds)

championIds == {i \in Idx(teams) : teams[i].status = "champion"}

\* C22: when every result is recorded between the two teams of the offered
\* match, every team has 0, 1 or 2 losses and is eliminated exactly when it
\* has 2 losses.
C22_LossesAndStatus ==
  \A i \in Idx(teams) :
    /\ teams[i].losses \in 0..2
    /\ teams[i].status = "eliminated" <=> teams[i].losses = 2

\* witness of C22: a tournament played to its end, with an eliminated team
C22_Witness ==
  /\ call.op = "recordMatchResult"
  /\ \E i \in Idx(teams) : teams[i].status = "eliminated" /\ teams[i].losses = 2
  /\ \E i \in Idx(teams) : teams[i].status = "active" /\ teams[i].losses = 1

\* C23: whatever two known teams the recorded results name, no team ever has
\* more than 2 losses.
C23_LossesBounded == \A i \in Idx(teams) : teams[i].losses <= 2

C24_FinalStep ==
  LET active == getActiveTeams(teams)
      w == call'.winnerTeamId
      l == call'.loserTeamId
  IN /\ ( /\ call'.op = "recordMatchResult"
          /\ Len(active) = 2
          /\ teams[w].losses = 1
          /\ teams[l].losses = 0 )
        => /\ teams'[w].losses = 1 /\ teams'[l].losses = 1
           /\ teams'[w].status = "active" /\ teams'[l].status = "active"
           /\ \A i \in Idx(teams') : teams'[i].status # "champion"
           /\ getChampionshipMatch(teams', matchCounter') # NoMatch
     /\ \A i \in Idx(teams') :
          (teams'[i].status = "champion" /\ teams[i].status # "champion")
            => /\ l # i
               /\ teams'[l].losses = 2
               /\ teams'[l].status = "eliminated"

\* C24: with two teams active, one without loss and one with one loss, a win
\* of the one-loss team leaves both active with one loss each, crowns nobody
\* and a further championship match is offered; a team is crowned only in the
\* step in which the other finalist takes its second loss.
C24_MustLoseTwice == [][C24_FinalStep]_vars

\* witness of C24: the one-loss finalist has just beaten the unbeaten one
C24_Witness ==
  /\ call.op = "recordMatchResult"
  /\ activeCount = 2
  /\ Len(teams) >= 3
  /\ \A i \in activeIds : teams[i].losses = 1
  /\ {call.winnerTeamId, call.loserTeamId} = activeIds

C25_Outcome ==
  (initialized /\ Len(teams) >= 2) =>
    /\ matchCounter <= 2 * Len(teams) - 1
    /\ isComplete(teams) =>
         /\ Len(eliminatedTeams(teams)) = Len(teams) - 1
         /\ Cardinality(championIds) = 1
         /\ \A i \in championIds : teams[i].losses < 2

\* C25: with 2 or more teams the loop of offered matches and recorded results
\* reaches isComplete, after at most 2n - 1 results, and then n - 1 teams are
\* eliminated and exactly one team is champion, with fewer than 2 losses.
C25_Termination ==
  /\ []C25_Outcome
  /\ (Len(teams) >= 2) ~> (Len(teams) >= 2 /\ isComplete(teams))

\* witness of C25: a tournament of 3 or more teams that took all 2n - 1 results
C25_Witness ==
  /\ Len(teams) >= 3
  /\ isComplete(teams)
  /\ matchCounter = 2 * Len(teams) - 1

C27_FewestPlayedFirst ==
  LET m == getNextMatch(teams, matchCounter)
      unbeaten == {i \in activeIds : teams[i].losses = 0}
  IN m # NoMatch =>
       /\ \A i \in activeIds \ {m.team1, m.team2} :
            played(i) >= played(m.team1) /\ played(i) >= played(m.team2)
       /\ Cardinality(unbeaten) >= 2 => {m.team1, m.team2} \subseteq unbeaten

\* C28: while the champion holds its bye and has not played, getNextMatch
\* offers no pairing with the champion until every other active team has
\* played at least once.
C28_ChampionWaits ==
  LET m == getNextMatch(teams, matchCounter)
  IN \A c \in Idx(teams) :
       ( /\ teams[c].isChampion
         /\ teams[c].hadBye
         /\ played(c) = 0
         /\ m # NoMatch
         /\ c \in {m.team1, m.team2} )
         => \A i \in activeIds \ {c} : played(i) >= 1

\* the players of a sequence or pair, as a set
Range(s) == {s[i] : i \in DOMAIN s}

\* C29: initializeTournament returns the champion team first when one is given
\* (isChampion, hadBye = championGetsBye), then floor(k / 2) teams made of the
\* k remaining players; every team has two distinct players, no player is in
\* two teams, no champion player is in another team, and every team starts
\* with 0 losses, active, with an empty match history.
C29_Initialized ==
  call.op = "initializeTournament" =>
    LET given == call.championTeam # NoChampion
        rest == Range(call.enrolledPlayers) \ Range(call.championTeam)
        first == IF given THEN 1 ELSE 0
    IN /\ Len(teams) = first + Cardinality(rest) \div 2
       /\ given => /\ teams[1].isChampion
                   /\ teams[1].hadBye = call.getsBye
                   /\ teams[1].players = call.championTeam
       /\ \A i \in Idx(teams) :
            /\ i > first => /\ ~teams[i].isChampion
                            /\ ~teams[i].hadBye
                            /\ Range(teams[i].players) \subseteq rest
            /\ teams[i].players[1] # teams[i].players[2]
            /\ teams[i].losses = 0
            /\ teams[i].status = "active"
            /\ teams[i].matchHistory = << >>
            /\ \A j \in Idx(teams) :
                 i # j => Range(teams[i].players) \cap Range(teams[j].players) = {}

\* witness of C29: a champion team with its bye, one of its players enrolled,
\* one more team, and one enrolled player left over
C29_Witness ==
  /\ call.op = "initializeTournament"
  /\ call.championTeam # NoChampion
  /\ Range(call.championTeam) \cap Range(call.enrolledPlayers) # {}
  /\ Cardinality(Range(call.enrolledPlayers) \ Range(call.championTeam)) = 3
  /\ Len(teams) = 2
  /\ teams[1].hadBye

(* ---------------- loss-tracking page: stale submissions ---------------- *)
\* the two teams of a stored row
pairing(row) == {row.team1_id, row.team2_id}

\* C30: of two submissions for the same pairing made from the same loaded
\* snapshot at most one is persisted (the stored rows are only appended, so a
\* row's match_number, the length of the submitting page's matchResults,
\* names the snapshot it was made from).
C30_StaleRejected ==
  \A i \in Idx(cornhole_event_matches), j \in Idx(cornhole_event_matches) :
    i < j =>
      ~ ( /\ cornhole_event_matches[i].match_number =
               cornhole_event_matches[j].match_number
          /\ pairing(cornhole_event_matches[i]) = pairing(cornhole_event_matches[j]) )

(* ---------------- the bracket as a whole ---------------- *)
\* the bracket size with two losers round -1 matches
EightTeams == 8

\* the bracket of eight teams, with or without a reigning champion's bye
InitEight ==
  /\ totalTeams = EightTeams
  /\ championGetsBye \in BOOLEAN
  /\ reigning \in {Undefined, 1}
  /\ matches = generateInitialBracket(totalTeams, championGetsBye, reigning)
  /\ completed = [op |-> "build", id |-> 0, winner_id |-> NoTeam, signal |-> "returned"]
  /\ updates = << >>
  /\ resubmits = 0
  /\ facadeIdle
  /\ pageIdle

SpecEight == InitEight /\ [][Next]_vars

\* C34: after the mutations of one advance call are applied, no undecided
\* winners-bracket match is left with exactly one populated slot, an occupant
\* that is not the champion, and no undecided feeder for its other slot.
C34_SweepFixpoint ==
  completed.op = "record" =>
    \A i \in Idx(matches) :
      ~( /\ matches[i].round > 0
         /\ undecided(matches[i])
         /\ (matches[i].team1_id = NoTeam) # (matches[i].team2_id = NoTeam)
         /\ ~occupies(reigning, matches[i])
         /\ \A j \in feedersOf(matches[i].round, matches[i].match_number) :
              ~undecided(matches[j]) )

\* C35: no match has the same team in both slots, and no team occupies slots
\* of two different undecided matches.
C35_SlotsDisjoint ==
  /\ \A i \in Idx(matches) :
       matches[i].team1_id # NoTeam => matches[i].team1_id # matches[i].team2_id
  /\ \A t \in Teams :
       Cardinality({i \in Idx(matches) :
                      undecided(matches[i]) /\ occupies(t, matches[i])}) <= 1

C36_Step ==
  grandFinalId # 0 =>
    /\ matches[grandFinalId].team1_id # NoTeam =>
         matches'[grandFinalId].team1_id = matches[grandFinalId].team1_id
    /\ matches[grandFinalId].team2_id # NoTeam =>
         matches'[grandFinalId].team2_id = matches[grandFinalId].team2_id

\* C36: once a slot of the grand final (round 0) holds a team, no later advance
\* call replaces it with a different team.
C36_GrandFinalWriteOnce == [][C36_Step]_vars

(* ---------------- loss accounting of the facade ---------------- *)
\* the 'L' entries of a team's matchHistory
lostEntries(i) ==
  {k \in Idx(teams[i].matchHistory) : teams[i].matchHistory[k].result = "L"}

RECURSIVE sumLosses(_)
sumLosses(ids) ==
  IF ids = {} THEN 0
  ELSE LET i == CHOOSE i \in ids : TRUE
       IN teams[i].losses + sumLosses(ids \ {i})

\* the recorded matches whose loser is an active team: every recorded match
\* is the one 'L' entry it pushed
lostByActive ==
  UNION {{<<i, k>> : k \in lostEntries(i)} : i \in activeIds}

C31_Accounting ==
  /\ \A i \in Idx(teams) : teams[i].losses = Cardinality(lostEntries(i))
  /\ sumLosses(activeIds) = Cardinality(lostByActive)

C31_WinnerStep ==
  call'.op = "recordMatchResult" =>
    teams'[call'.winnerTeamId].losses = teams[call'.winnerTeamId].losses

C33_InsertStep ==
  (lastChange'.op = "insert" /\ lastId' # lastId)
  => standings(totalTeams, deleteRow(cornhole_event_matches', lastChange'.id))
       = standings(totalTeams, cornhole_event_matches)

\* a delete of the row that the last change inserted: what the page derives
\* after it is what the stored rows gave before the insert
C33_DeleteStep ==
  ( /\ lastChange.op = "insert"
    /\ lastChange'.op = "delete"
    /\ lastChange'.id = lastChange.id )
  => standings(totalTeams, matchResults'[Organizer]) = lastChange.before

\* C33: recording a match result and then deleting that same result restores
\* every team's loss count and eliminated flag, the tournament-complete flag
\* and the champion to their values before the recording.
C33_RecordThenDelete == [][C33_InsertStep /\ C33_DeleteStep]_vars

\* witness of C33: a second result was recorded and deleted again, and the
\* first one is still stored
C33_Witness ==
  /\ lastChange.op = "delete"
  /\ lastChange.id = lastId
  /\ Len(cornhole_event_matches) = 1
  /\ totalTeams >= 3
  /\ standings(totalTeams, matchResults[Organizer]) = lastChange.before

\* the matchups getSuggestedMatches returns on the organizer's page
suggested ==
  getSuggestedMatches(totalTeams, reigning, championGetsBye, matchResults[Organizer])

\* C37: in the pairings getSuggestedMatches returns each team appears at most
\* once, no team is eliminated, and no team is paired with itself.
C37_SuggestionsSound ==
  LET s == suggested
  IN /\ \A k \in Idx(s) :
          /\ s[k].team1 # s[k].team2
          /\ ~isEliminated(s[k].team1, matchResults[Organizer])
          /\ ~isEliminated(s[k].team2, matchResults[Organizer])
     /\ \A j \in Idx(s), k \in Idx(s) :
          j < k => {s[j].team1, s[j].team2} \cap {s[k].team1, s[k].team2} = {}

\* witness of C37: after a change of the stored rows two matchups are suggested
C37_Witness ==
  /\ lastChange.op # "none"
  /\ Len(suggested) = 2

C38_Offered ==
  Len(activeTeams(totalTeams, cornhole_event_matches)) >= 2 => Len(suggested) >= 1

\* C38: in a tournament played by recording suggested matchups, a matchup is
\* suggested whenever two or more teams are not eliminated, and the tournament
\* reaches a single team that is not eliminated.
C38_Progress ==
  /\ []C38_Offered
  /\ (totalTeams >= 2) ~> (Len(activeTeams(totalTeams, cornhole_event_matches)) = 1)

\* witness of C38: four teams with a champion's bye, played to the end in
\* seven results
C38_Witness ==
  /\ totalTeams = 4
  /\ championGetsBye
  /\ reigning \in Teams
  /\ Len(cornhole_event_matches) = 7
  /\ tournamentComplete(totalTeams, matchResults[Organizer])

====
